---- MODULE Spec2Model ----
(***************************************************************************)
(* The cardiovascular risk page (src/app.py) as a state machine.           *)
(*                                                                         *)
(* One Streamlit process serves the page.  Every user interaction re-runs  *)
(* the script from the top; a run goes through four blocks in order:       *)
(*   load      lines  71-83   load_model() behind st.cache_resource        *)
(*   features  lines  98-162  widgets, feature engineering, input_data     *)
(*   assess    lines 206-232  button, predict_proba, tier, doctor summary  *)
(*   analysis  lines 235-294  the optional model-analysis expander         *)
(* An uncaught exception ends the run where it is raised.                  *)
(*                                                                         *)
(* Numbers: a probability is an integer number of 1/ProbDen; every other   *)
(* feature value is a fraction <<numerator, denominator>>.                 *)
(* An optional value is a sequence: <<>> is absent, <<x>> holds x.         *)
(***************************************************************************)
EXTENDS Integers, Sequences, FiniteSets

VARIABLES
    disk,            \* cardio_model.pkl on disk: <<>> (no file) or <<bundle>>
    cache,           \* st.cache_resource entry of load_model: <<>> or <<bundle>>
    loads,           \* completed joblib.load calls in this process (saturating)
    pc,              \* "idle", a block of the running script, "done" or "error"
    widgets,         \* the session's widget values (the patient profile)
    predict_clicked, \* st.button's return value for the current run
    widgetsShown,    \* the run rendered the input widgets (lines 98-137)
    buttonShown,     \* the run rendered the predict button (line 208)
    saved,           \* the run's `saved` (line 77): <<>> or <<bundle>>
    has_analysis,    \* the run's `has_analysis` (line 83)
    input_data,      \* the run's one-row frame: <<>> or <<row>>
    probability,     \* the run's `probability`: <<>> or <<P>>
    risk_level,      \* the run's `risk_level`: "undefined", "low", "medium", "high"
    banner,          \* st.success / st.warning / st.error element: <<>> or <<b>>
    progress,        \* st.progress element: <<>> or <<v>>
    advisory,        \* st.markdown(doctor_summary(..)) element: <<>> or <<text>>
    panels,          \* the panels shown inside the analysis expander
    err,             \* the exception that ended the run, "none" otherwise
    ref              \* history: one remembered successful assessment, <<>> or
                     \* <<r>>; r.repeated once its profile was assessed again

vars == <<disk, cache, loads, pc, widgets, predict_clicked, widgetsShown,
          buttonShown, saved, has_analysis, input_data, probability,
          risk_level, banner, progress, advisory, panels, err, ref>>

(***************************************************************************)
(* Bounds of the model.                                                    *)
(***************************************************************************)
\* probabilities are multiples of 1/ProbDen
ProbDen == 1000
\* longest expected-column list enumerated for the feature builder
MaxCols == 2
\* the joblib.load counter saturates here
MaxLoads == 2

(***************************************************************************)
(* Program constants.                                                      *)
(***************************************************************************)
\* height_m = 1.7, in tenths of a metre
HeightTenths == 17
\* `if risk_percentage < 30`
LowLimit == 30
\* `elif risk_percentage < 60`
MediumLimit == 60
\* st.progress accepts an int in 0..100
ProgressMax == 100

(***************************************************************************)
(* The artifact bundle: the dict in cardio_model.pkl.                      *)
(***************************************************************************)
RequiredKeys == {"model", "columns"}

MetricKeys == {"train_accuracy", "test_accuracy", "cv_score"}

ChartKeys == {"model_comparison", "feature_importance", "roc_fpr", "roc_tpr",
              "learning_curve"}

OptionalKeys == MetricKeys \cup ChartKeys

\* the keys of the dict literal handed to pd.DataFrame, in its order
ComputedNames == <<"gender", "weight", "ap_hi", "ap_lo", "cholesterol", "gluc",
                   "smoke", "alco", "active", "age_years", "bmi",
                   "pulse_pressure", "health_index",
                   "cholesterol_gluc_interaction">>

ComputedNameSet == {ComputedNames[i] : i \in 1..Len(ComputedNames)}

\* a bundle without the key "model" holds no classifier
NoClassifier == [n_features |-> 0, bias |-> 0, weight |-> 0]

Bundle(keys, clf, cols) ==
    [keys    |-> keys,
     model   |-> IF "model" \in keys THEN clf ELSE NoClassifier,
     columns |-> IF "columns" \in keys THEN cols ELSE <<>>]

(***************************************************************************)
(* Feature engineering.                                                    *)
(***************************************************************************)
Whole(n) == <<n, 1>>

\* bmi = weight / (height_m ** 2), height_m = 1.7
bmi(w) == <<w.weight * 100, HeightTenths * HeightTenths>>

pulse_pressure(w) == Whole(w.ap_hi - w.ap_lo)

\* the inversions of smoke and alco forgotten
health_index_uninverted(w) == <<w.active + w.smoke + w.alco, 3>>

health_index(w) == <<w.active + (1 - w.smoke) + (1 - w.alco), 3>>

cholesterol_gluc_interaction(w) == Whole(w.cholesterol * w.gluc)

\* the one-row frame before column selection: name -> value
FeatureFrame(w) ==
    [gender         |-> Whole(w.gender),
     weight         |-> Whole(w.weight),
     ap_hi          |-> Whole(w.ap_hi),
     ap_lo          |-> Whole(w.ap_lo),
     cholesterol    |-> Whole(w.cholesterol),
     gluc           |-> Whole(w.gluc),
     smoke          |-> Whole(w.smoke),
     alco           |-> Whole(w.alco),
     active         |-> Whole(w.active),
     age_years      |-> Whole(w.age),
     bmi            |-> bmi(w),
     pulse_pressure |-> pulse_pressure(w),
     health_index   |-> health_index(w),
     cholesterol_gluc_interaction |-> cholesterol_gluc_interaction(w)]

\* the frame's own column order kept: the listed names, in the dict's order
SelectColumnsFrameOrder(frame, columns) ==
    LET listed(n) == \E i \in 1..Len(columns) : columns[i] = n
        kept      == SelectSeq(ComputedNames, listed)
    IN  IF \A i \in 1..Len(columns) : columns[i] \in DOMAIN frame
        THEN [ok  |-> TRUE,
              row |-> [i \in 1..Len(kept) |-> <<kept[i], frame[kept[i]]>>]]
        ELSE [ok |-> FALSE, row |-> <<>>]

\* frame.reindex(columns=columns): a name the frame lacks becomes a NaN
\* column (written <<0, 0>>) instead of raising
SelectColumnsReindex(frame, columns) ==
    [ok  |-> TRUE,
     row |-> [i \in 1..Len(columns) |->
                <<columns[i],
                  IF columns[i] \in DOMAIN frame THEN frame[columns[i]]
                  ELSE <<0, 0>>>>]]

\* frame[columns]: the listed columns in the list's order; KeyError when a
\* listed name is not a column of the frame
SelectColumns(frame, columns) ==
    IF \A i \in 1..Len(columns) : columns[i] \in DOMAIN frame
    THEN [ok  |-> TRUE,
          row |-> [i \in 1..Len(columns) |-> <<columns[i], frame[columns[i]]>>]]
    ELSE [ok |-> FALSE, row |-> <<>>]

(***************************************************************************)
(* Scoring, tiering and the doctor's summary.                              *)
(***************************************************************************)
RECURSIVE SumNumerators(_)
SumNumerators(row) ==
    IF row = <<>> THEN 0
    ELSE Head(row)[2][1] + SumNumerators(Tail(row))

\* a classifier that scoring itself updates: what it returns drifts once an
\* assessment has been made
PredictProbaDrifting(clf, row) ==
    IF Len(row) # clf.n_features
    THEN [ok |-> FALSE, p |-> 0]
    ELSE [ok |-> TRUE,
          p  |-> (clf.bias + clf.weight * SumNumerators(row)
                  + (IF ref = <<>> THEN 0 ELSE 1)) % (ProbDen + 1)]

\* model.predict_proba(input_data)[0][1]: the classifier is an opaque
\* deterministic scorer; it rejects a row whose width is not the width it
\* was fitted on, and otherwise returns a probability in [0, 1]
PredictProba(clf, row) ==
    IF Len(row) # clf.n_features
    THEN [ok |-> FALSE, p |-> 0]
    ELSE [ok |-> TRUE,
          p  |-> (clf.bias + clf.weight * SumNumerators(row)) % (ProbDen + 1)]

\* risk_percentage = probability * 100
risk_percentage(p) == <<p * 100, ProbDen>>

\* fraction < whole number
Below(x, n) == x[1] < n * x[2]

\* the thresholds taken with <= : 30 falls to low, 60 to medium
RiskLevelInclusive(pct) ==
    IF pct[1] <= LowLimit * pct[2] THEN "low"
    ELSE IF pct[1] <= MediumLimit * pct[2] THEN "medium"
    ELSE "high"

\* the if / elif / else of the tiering block
RiskLevel(pct) ==
    IF Below(pct, LowLimit) THEN "low"
    ELSE IF Below(pct, MediumLimit) THEN "medium"
    ELSE "high"

\* f"{risk_percentage:.1f}": tenths of a percent, ties to even
Format1f(x) ==
    LET q == (x[1] * 10) \div x[2]
        r == (x[1] * 10) % x[2]
    IN  IF 2 * r > x[2] THEN q + 1
        ELSE IF 2 * r = x[2] THEN q + (q % 2)
        ELSE q

\* the st.success / st.warning / st.error call of the tier
Banner(pct) ==
    IF Below(pct, LowLimit)
    THEN [call |-> "success", label |-> "Low Risk", tenths |-> Format1f(pct)]
    ELSE IF Below(pct, MediumLimit)
    THEN [call |-> "warning", label |-> "Moderate Risk", tenths |-> Format1f(pct)]
    ELSE [call |-> "error", label |-> "High Risk", tenths |-> Format1f(pct)]

\* int(risk_percentage)
ProgressValue(pct) == pct[1] \div pct[2]

\* the percentage handed over as a float: st.progress takes a float in
\* 0.0..1.0 only
ProgressOkFraction(v) == v \in 0..1

\* st.progress takes an int in 0..100 and raises otherwise
ProgressOk(v) == v \in 0..ProgressMax

doctor_summary(level) ==
    IF level = "low"
    THEN [risk       |-> "low risk",
          todo       |-> "routine health checkups",
          closing    |-> "No immediate medical concern is indicated.",
          disclaimer |-> FALSE]
    ELSE IF level = "medium"
    THEN [risk       |-> "moderate risk",
          todo       |-> "improve habits and monitor",
          closing    |-> "Early action can significantly reduce future risk.",
          disclaimer |-> FALSE]
    ELSE [risk       |-> "high risk",
          todo       |-> "consult a doctor as soon as possible",
          closing    |-> "This result is not a diagnosis, but it should not be ignored.",
          disclaimer |-> TRUE]

\* `if predict_clicked:` of the risk assessment block
ScoreGuard(clicked) == clicked

\* the doctor summary rendered on every run
SummaryAlways(clicked) == TRUE

\* `if predict_clicked:` of the doctor summary block
SummaryGuard(clicked) == clicked

NotScored ==
    [probability |-> <<>>, risk_level |-> "undefined", banner |-> <<>>,
     progress |-> <<>>, err |-> "none"]

\* lines 214-227: score, tier, banner, progress bar
ScoreBlock(clf, row) ==
    LET pp  == PredictProba(clf, row)
        pct == risk_percentage(pp.p)
        v   == ProgressValue(pct)
    IN  IF ~pp.ok
        THEN [NotScored EXCEPT !.err = "ValueError:predict_proba"]
        ELSE [probability |-> <<pp.p>>,
              risk_level  |-> RiskLevel(pct),
              banner      |-> <<Banner(pct)>>,
              progress    |-> IF ProgressOk(v) THEN <<v>> ELSE <<>>,
              err         |-> IF ProgressOk(v) THEN "none"
                              ELSE "StreamlitAPIException:progress"]

\* line 232: st.markdown(doctor_summary(risk_level)); the name risk_level
\* is bound only by the tiering block of the same run
SummaryBlock(level) ==
    IF level = "undefined"
    THEN [advisory |-> <<>>, err |-> "NameError:risk_level"]
    ELSE [advisory |-> <<doctor_summary(level)>>, err |-> "none"]

\* lines 235-294: the expander and its panels, in script order
AnalysisBlock(analysis, keys) ==
    IF ~analysis THEN [panels |-> {}, err |-> "none"]
    ELSE IF "test_accuracy" \notin keys
    THEN [panels |-> {"Training Accuracy"}, err |-> "KeyError:test_accuracy"]
    ELSE IF "cv_score" \notin keys
    THEN [panels |-> {"Training Accuracy", "Testing Accuracy"},
          err    |-> "KeyError:cv_score"]
    ELSE [panels |-> {"Training Accuracy", "Testing Accuracy", "5-Fold CV Score"}
                     \cup (IF "model_comparison" \in keys
                           THEN {"Model comparison"} ELSE {})
                     \cup (IF "feature_importance" \in keys
                           THEN {"Feature importance"} ELSE {})
                     \cup (IF "roc_fpr" \in keys /\ "roc_tpr" \in keys
                           THEN {"ROC curve"} ELSE {})
                     \cup (IF "learning_curve" \in keys
                           THEN {"Learning curve"} ELSE {}),
          err    |-> "none"]

\* a decorator that never finds the cached value
CacheMiss(cached) == FALSE

\* whether the cache already holds load_model()'s return value
CacheHit(cached) == cached # <<>>

\* saved.get("columns"): a missing "columns" goes unnoticed at load
MissingKeyLenient(keys) == IF "model" \notin keys THEN "model" ELSE ""

\* saved["model"], then saved["columns"]: the first subscript that raises
\* KeyError, "" when both keys are there
MissingKey(keys) ==
    IF "model" \notin keys THEN "model"
    ELSE IF "columns" \notin keys THEN "columns"
    ELSE ""

(***************************************************************************)
(* The inputs of the model: widget values, artifacts on disk.              *)
(***************************************************************************)
\* the widgets' initial values (selectbox index, number_input value)
DefaultWidgets ==
    [gender |-> 1, age |-> 40, weight |-> 70, active |-> 0, ap_hi |-> 120,
     ap_lo |-> 80, cholesterol |-> 1, gluc |-> 1, smoke |-> 0, alco |-> 0]

\* the values a session of the page model enters into each widget
SessionChoices ==
    [gender |-> {1}, age |-> {40}, weight |-> {70}, active |-> {0, 1},
     ap_hi |-> {120}, ap_lo |-> {80}, cholesterol |-> {1, 3}, gluc |-> {1},
     smoke |-> {0, 1}, alco |-> {0}]

\* the profiles the feature builder is enumerated on
FormProfiles ==
    {[DefaultWidgets EXCEPT !.weight = w, !.active = a, !.smoke = s, !.alco = l,
                            !.cholesterol = c]
       : w \in {30, 200}, a \in {0, 1}, s \in {0, 1}, l \in {0, 1}, c \in {1, 3}}

\* classifiers fitted on all fourteen computed features
Clf14 == [n_features |-> Len(ComputedNames), bias |-> 352, weight |-> 150]

Clf14b == [n_features |-> Len(ComputedNames), bias |-> 40, weight |-> 1]

\* the training order of a bundle whose columns are not in the dict's order
TrainingOrder ==
    <<"age_years", "gender", "weight", "ap_hi", "ap_lo", "cholesterol", "gluc",
      "smoke", "alco", "active", "bmi", "pulse_pressure", "health_index",
      "cholesterol_gluc_interaction">>

\* expected-column lists of the page model: the dict's order, another order
\* of the same names, a list narrower than the classifier, a list naming a
\* feature the page does not compute
PageColumnLists ==
    {ComputedNames, TrainingOrder, <<"age_years", "bmi", "health_index">>,
     <<"gender", "height", "weight">>}

\* the optional keys of a bundle: any of the metric keys, and any of the
\* chart keys beside all three metric keys (the script reads a chart key
\* only after it has read the three metrics)
AnalysisKeySets ==
    (SUBSET MetricKeys) \cup {MetricKeys \cup c : c \in SUBSET ChartKeys}

\* bundles the process may find on disk when it starts
Artifacts ==
    {Bundle(k, Clf14, ComputedNames) : k \in SUBSET RequiredKeys}
    \cup {Bundle(RequiredKeys \cup o, Clf14, ComputedNames) : o \in AnalysisKeySets}
    \cup {Bundle(RequiredKeys, Clf14, c) : c \in PageColumnLists}
    \cup {Bundle(RequiredKeys, Clf14b, ComputedNames)}

\* the bundle a later training run writes over the file
Retrained == Bundle(RequiredKeys \cup OptionalKeys, Clf14b, TrainingOrder)

(***************************************************************************)
(* The page process.                                                       *)
(***************************************************************************)
\* a rerun executes the script in a fresh namespace and redraws the page
ResetRun ==
    /\ saved' = <<>>
    /\ has_analysis' = FALSE
    /\ input_data' = <<>>
    /\ probability' = <<>>
    /\ risk_level' = "undefined"
    /\ banner' = <<>>
    /\ progress' = <<>>
    /\ advisory' = <<>>
    /\ panels' = {}
    /\ err' = "none"
    /\ widgetsShown' = FALSE
    /\ buttonShown' = FALSE

Init ==
    /\ disk \in {<<>>} \cup {<<a>> : a \in Artifacts}
    /\ cache = <<>>
    /\ loads = 0
    /\ pc = "idle"
    /\ widgets = DefaultWidgets
    /\ predict_clicked = FALSE
    /\ widgetsShown = FALSE
    /\ buttonShown = FALSE
    /\ saved = <<>>
    /\ has_analysis = FALSE
    /\ input_data = <<>>
    /\ probability = <<>>
    /\ risk_level = "undefined"
    /\ banner = <<>>
    /\ progress = <<>>
    /\ advisory = <<>>
    /\ panels = {}
    /\ err = "none"
    /\ ref = <<>>

RunOver == pc \in {"done", "error"}

\* a browser opens (or reloads) the page: a new session with default widgets
OpenPage ==
    /\ pc = "idle" \/ RunOver
    /\ widgets' = DefaultWidgets
    /\ predict_clicked' = FALSE
    /\ ResetRun
    /\ pc' = "load"
    /\ UNCHANGED <<disk, cache, loads, ref>>

\* the user changes one rendered widget: a rerun, the button not clicked
SetWidget ==
    /\ RunOver
    /\ widgetsShown
    /\ \E f \in DOMAIN SessionChoices : \E v \in SessionChoices[f] :
          /\ v # widgets[f]
          /\ widgets' = [widgets EXCEPT ![f] = v]
    /\ predict_clicked' = FALSE
    /\ ResetRun
    /\ pc' = "load"
    /\ UNCHANGED <<disk, cache, loads, ref>>

\* the user presses the rendered predict button: a rerun, the button clicked
ClickPredict ==
    /\ RunOver
    /\ buttonShown
    /\ predict_clicked' = TRUE
    /\ ResetRun
    /\ pc' = "load"
    /\ UNCHANGED <<disk, cache, loads, widgets, ref>>

\* lines 71-83: saved = load_model(); model, columns, has_analysis
LoadArtifact ==
    /\ pc = "load"
    /\ LET hit    == CacheHit(cache)
           bundle == IF hit THEN cache ELSE disk
       IN  IF bundle = <<>>
           THEN /\ err' = "FileNotFoundError"
                /\ pc' = "error"
                /\ UNCHANGED <<cache, loads, saved, has_analysis>>
           ELSE /\ cache' = bundle
                /\ loads' = IF hit \/ loads = MaxLoads THEN loads ELSE loads + 1
                /\ saved' = bundle
                /\ IF MissingKey(bundle[1].keys) = "model"
                   THEN err' = "KeyError:model" /\ pc' = "error"
                        /\ UNCHANGED has_analysis
                   ELSE IF MissingKey(bundle[1].keys) = "columns"
                   THEN err' = "KeyError:columns" /\ pc' = "error"
                        /\ UNCHANGED has_analysis
                   ELSE /\ has_analysis' = ("train_accuracy" \in bundle[1].keys)
                        /\ pc' = "features"
                        /\ UNCHANGED err
    /\ UNCHANGED <<disk, widgets, predict_clicked, widgetsShown, buttonShown,
                   input_data, probability, risk_level, banner, progress,
                   advisory, panels, ref>>

\* lines 98-162: the widgets, the engineered features, input_data
BuildFeatures ==
    /\ pc = "features"
    /\ widgetsShown' = TRUE
    /\ LET sel == SelectColumns(FeatureFrame(widgets), saved[1].columns)
       IN  IF sel.ok
           THEN input_data' = <<sel.row>> /\ pc' = "assess" /\ UNCHANGED err
           ELSE err' = "KeyError:not in index" /\ pc' = "error"
                /\ UNCHANGED input_data
    /\ UNCHANGED <<disk, cache, loads, widgets, predict_clicked, buttonShown,
                   saved, has_analysis, probability, risk_level, banner,
                   progress, advisory, panels, ref>>

\* lines 206-232: the button, the risk assessment, the doctor's summary
Assess ==
    /\ pc = "assess"
    /\ buttonShown' = TRUE
    /\ LET sc == IF ScoreGuard(predict_clicked)
                 THEN ScoreBlock(saved[1].model, input_data[1])
                 ELSE NotScored
           sm == IF sc.err = "none" /\ SummaryGuard(predict_clicked)
                 THEN SummaryBlock(sc.risk_level)
                 ELSE [advisory |-> <<>>, err |-> sc.err]
       IN  /\ probability' = sc.probability
           /\ risk_level' = sc.risk_level
           /\ banner' = sc.banner
           /\ progress' = sc.progress
           /\ advisory' = sm.advisory
           /\ err' = sm.err
           /\ pc' = IF sm.err = "none" THEN "analysis" ELSE "error"
           /\ \E keep \in BOOLEAN :
                ref' = IF keep /\ ref = <<>> /\ sm.advisory # <<>>
                       THEN <<[widgets     |-> widgets,
                               probability |-> sc.probability,
                               risk_level  |-> sc.risk_level,
                               banner      |-> sc.banner,
                               advisory    |-> sm.advisory,
                               repeated    |-> FALSE]>>
                       ELSE IF ref # <<>> /\ sm.advisory # <<>>
                               /\ widgets = ref[1].widgets
                       THEN <<[ref[1] EXCEPT !.repeated = TRUE]>>
                       ELSE ref
    /\ UNCHANGED <<disk, cache, loads, widgets, predict_clicked, widgetsShown,
                   saved, has_analysis, input_data, panels>>

\* lines 235-311: the analysis expander, then the footer
Analysis ==
    /\ pc = "analysis"
    /\ LET a == AnalysisBlock(has_analysis, saved[1].keys)
       IN  /\ panels' = a.panels
           /\ err' = a.err
           /\ pc' = IF a.err = "none" THEN "done" ELSE "error"
    /\ UNCHANGED <<disk, cache, loads, widgets, predict_clicked, widgetsShown,
                   buttonShown, saved, has_analysis, input_data, probability,
                   risk_level, banner, progress, advisory, ref>>

\* the training pipeline, outside the process, rewrites cardio_model.pkl
WriteArtifact ==
    /\ disk # <<Retrained>>
    /\ disk' = <<Retrained>>
    /\ UNCHANGED <<cache, loads, pc, widgets, predict_clicked, widgetsShown,
                   buttonShown, saved, has_analysis, input_data, probability,
                   risk_level, banner, progress, advisory, panels, err, ref>>

Next ==
    \/ OpenPage
    \/ SetWidget
    \/ ClickPredict
    \/ LoadArtifact
    \/ BuildFeatures
    \/ Assess
    \/ Analysis
    \/ WriteArtifact

Spec == Init /\ [][Next]_vars

(***************************************************************************)
(* The feature builder on its own: every profile of FormProfiles against   *)
(* every expected-column list of at most MaxCols names, a run standing     *)
(* right before its feature block.                                         *)
(***************************************************************************)
\* the computed names and one name the page does not compute
ColumnNames == ComputedNameSet \cup {"height"}

ColumnListsUpTo(n) == UNION {[1..k -> ColumnNames] : k \in 0..n}

\* a classifier fitted on the given columns
FittedOn(cols) == [n_features |-> Len(cols), bias |-> 352, weight |-> 150]

InitFeatures ==
    /\ \E cols \in ColumnListsUpTo(MaxCols) :
          /\ disk = <<Bundle(RequiredKeys, FittedOn(cols), cols)>>
          /\ cache = disk
          /\ saved = disk
    /\ loads = 1
    /\ pc = "features"
    /\ widgets \in FormProfiles
    /\ predict_clicked = FALSE
    /\ widgetsShown = FALSE
    /\ buttonShown = FALSE
    /\ has_analysis = FALSE
    /\ input_data = <<>>
    /\ probability = <<>>
    /\ risk_level = "undefined"
    /\ banner = <<>>
    /\ progress = <<>>
    /\ advisory = <<>>
    /\ panels = {}
    /\ err = "none"
    /\ ref = <<>>

SpecFeatures == InitFeatures /\ [][BuildFeatures]_vars

(***************************************************************************)
(* The assessment block on its own: every probability 0/ProbDen ..         *)
(* ProbDen/ProbDen the classifier can return, a clicked run standing right *)
(* before its assessment block.                                            *)
(***************************************************************************)
\* a classifier that returns p / ProbDen whatever the row
Constantly(p) == [n_features |-> Len(ComputedNames), bias |-> p, weight |-> 0]

InitTier ==
    /\ \E p \in 0..ProbDen :
          /\ disk = <<Bundle(RequiredKeys, Constantly(p), ComputedNames)>>
          /\ cache = disk
          /\ saved = disk
    /\ loads = 1
    /\ pc = "assess"
    /\ widgets = DefaultWidgets
    /\ predict_clicked = TRUE
    /\ widgetsShown = TRUE
    /\ buttonShown = FALSE
    /\ has_analysis = FALSE
    /\ input_data = <<SelectColumns(FeatureFrame(DefaultWidgets), ComputedNames).row>>
    /\ probability = <<>>
    /\ risk_level = "undefined"
    /\ banner = <<>>
    /\ progress = <<>>
    /\ advisory = <<>>
    /\ panels = {}
    /\ err = "none"
    /\ ref = <<>>

SpecTier == InitTier /\ [][Assess]_vars

(***************************************************************************)
(* The claims.                                                             *)
(***************************************************************************)

\* C1: whatever probability p in [0,1] the classifier returns, the run's
\* tier is low when p*100 < 30, medium when 30 <= p*100 < 60 and high when
\* p*100 >= 60, and the banner is the one of that tier; 30 itself is medium
\* and 60 itself is high.
C1_Tiering ==
    probability # <<>> =>
        LET hundredths == probability[1] * 100
        IN  /\ probability[1] \in 0..ProbDen
            /\ hundredths < 30 * ProbDen
                 => risk_level = "low" /\ banner[1].label = "Low Risk"
            /\ (30 * ProbDen <= hundredths /\ hundredths < 60 * ProbDen)
                 => risk_level = "medium" /\ banner[1].label = "Moderate Risk"
            /\ hundredths >= 60 * ProbDen
                 => risk_level = "high" /\ banner[1].label = "High Risk"

\* a run scored exactly 30 percent and was tiered medium
C1_Witness ==
    /\ probability # <<>>
    /\ probability[1] * 100 = 30 * ProbDen
    /\ risk_level = "medium"
    /\ banner # <<>>

\* the names of a row, in its order
RowNames(row) == [i \in 1..Len(row) |-> row[i][1]]

AllComputed(cols) == \A i \in 1..Len(cols) : cols[i] \in ComputedNameSet

\* C2: once the feature block has run with an expected-column list drawn
\* from the fourteen computed names, there is a feature row, no error, and
\* the row's columns are exactly the list's names in the list's order; the
\* computed features the list leaves out are not in the row.
C2_RowMatchesColumns ==
    (widgetsShown /\ saved # <<>> /\ AllComputed(saved[1].columns)) =>
        /\ err # "KeyError:not in index"
        /\ input_data # <<>>
        /\ RowNames(input_data[1]) = saved[1].columns
        /\ \A i \in 1..Len(input_data[1]) :
              input_data[1][i][2] = FeatureFrame(widgets)[saved[1].columns[i]]

\* the list <<bmi, gender>> against a 200 kg male: two columns, bmi first
C2_Witness ==
    /\ pc = "assess"
    /\ saved[1].columns = <<"bmi", "gender">>
    /\ widgets.weight = 200
    /\ input_data = << << <<"bmi", <<20000, 289>>>>, <<"gender", <<1, 1>>>> >> >>

\* C3: once the feature block has run with an expected-column list naming
\* a feature the page does not compute, the run has ended in the column
\* selection's KeyError (the spec's SchemaMismatchError) and has produced
\* no feature row, no probability, no tier, no banner and no advisory.
C3_UnknownColumnAborts ==
    (widgetsShown /\ saved # <<>> /\ ~AllComputed(saved[1].columns)) =>
        /\ pc = "error"
        /\ err = "KeyError:not in index"
        /\ ~buttonShown
        /\ input_data = <<>>
        /\ probability = <<>>
        /\ risk_level = "undefined"
        /\ banner = <<>>
        /\ progress = <<>>
        /\ advisory = <<>>

\* a run of a bundle whose list names "height" ended in the selection
C3_Witness ==
    /\ pc = "error"
    /\ err = "KeyError:not in index"
    /\ widgetsShown
    /\ saved # <<>>
    /\ \E i \in 1..Len(saved[1].columns) : saved[1].columns[i] = "height"

\* C4: a loaded bundle that lacks "model" or "columns" ends every run in
\* the load block's KeyError (the spec's ArtifactLoadError): with such a
\* bundle in the cache no run gets past the load block, no widget or
\* button is rendered, no feature row is built and nothing is scored.
C4_MissingRequiredKeyHalts ==
    (cache # <<>> /\ ~(RequiredKeys \subseteq cache[1].keys)) =>
        /\ pc \in {"load", "error"}
        /\ pc = "error" => err \in {"KeyError:model", "KeyError:columns"}
        /\ ~widgetsShown
        /\ ~buttonShown
        /\ input_data = <<>>
        /\ probability = <<>>
        /\ banner = <<>>
        /\ advisory = <<>>
        /\ ref = <<>>

\* a run of a bundle without "columns" ended in the load block
C4_Witness ==
    /\ pc = "error"
    /\ err = "KeyError:columns"
    /\ saved # <<>>
    /\ "model" \in saved[1].keys
    /\ "columns" \notin saved[1].keys

\* C5: with "model" and "columns" in the bundle, no subset of the optional
\* evaluation keys makes a run raise: no run ends in a KeyError for an
\* absent optional key.
C5_AbsentOptionalKeyNeverRaises ==
    (saved # <<>> /\ RequiredKeys \subseteq saved[1].keys) =>
        err \notin {"KeyError:test_accuracy", "KeyError:cv_score"}

\* C6: the probability, the tier banner and the advisory text are emitted
\* together or not at all, and a clicked run that has ended without them
\* has ended in an error.
C6_AllOrNothing ==
    /\ (probability = <<>>) = (banner = <<>>)
    /\ (banner = <<>>) = (advisory = <<>>)
    /\ (RunOver /\ predict_clicked /\ advisory = <<>>) => err # "none"
    /\ (predict_clicked /\ pc \in {"analysis", "done"}) => advisory # <<>>

\* a clicked run ended with the banner, the progress bar and the advisory
C6_Witness ==
    /\ pc = "done"
    /\ predict_clicked
    /\ probability # <<>>
    /\ banner # <<>>
    /\ progress # <<>>
    /\ advisory # <<>>

\* C7: the file is read at most once in the process; once the cache holds
\* a bundle it holds that bundle for ever, whatever happens to the file,
\* and every run's `saved` is the cached bundle.
C7_LoadedOnce ==
    [][/\ cache # <<>> => cache' = cache
       /\ loads' <= 1
       /\ loads' = (IF cache' = <<>> THEN 0 ELSE 1)
       /\ saved' # <<>> => saved' = cache']_vars

\* a later, clicked run got the cached bundle although the file has been
\* rewritten since
C7_Witness ==
    /\ pc = "features"
    /\ predict_clicked
    /\ disk = <<Retrained>>
    /\ cache # disk
    /\ saved = cache
    /\ loads = 1

\* a completed assessment agrees with the remembered one of the same profile
SameAsRemembered ==
    (ref # <<>> /\ advisory # <<>> /\ widgets = ref[1].widgets) =>
        /\ probability = ref[1].probability
        /\ risk_level = ref[1].risk_level
        /\ banner = ref[1].banner
        /\ advisory = ref[1].advisory

\* C8: an assessment with the profile of any earlier assessment of the
\* process gives the same probability, tier, banner and advisory, whatever
\* was assessed in between, and the assessment block leaves the bundle
\* (cache and `saved`) as it found it.
C8_SameProfileSameResult ==
    [][/\ SameAsRemembered'
       /\ pc = "assess" => (cache' = cache /\ saved' = saved)]_vars

\* a later assessment of the remembered profile, other profiles in between
C8_Witness ==
    /\ ref # <<>>
    /\ ref[1].repeated
    /\ pc = "done"
    /\ advisory # <<>>
    /\ widgets = ref[1].widgets
    /\ widgets # DefaultWidgets
    /\ disk # cache
    /\ probability = ref[1].probability

\* C9: the health_index of a feature row is a fraction in [0, 1]; it is 1
\* exactly for active = 1, smoke = 0, alco = 0 and 0 exactly for
\* active = 0, smoke = 1, alco = 1.
C9_HealthIndexRange ==
    input_data # <<>> =>
        \A i \in 1..Len(input_data[1]) :
            input_data[1][i][1] = "health_index" =>
                LET h == input_data[1][i][2]
                IN  /\ h[2] = 3
                    /\ 0 <= h[1] /\ h[1] <= h[2]
                    /\ (h[1] = h[2]) =
                         (widgets.active = 1 /\ widgets.smoke = 0 /\ widgets.alco = 0)
                    /\ (h[1] = 0) =
                         (widgets.active = 0 /\ widgets.smoke = 1 /\ widgets.alco = 1)

\* an inactive smoker who drinks: health_index 0/3
C9_Witness ==
    /\ input_data # <<>>
    /\ widgets.active = 0 /\ widgets.smoke = 1 /\ widgets.alco = 1
    /\ \E i \in 1..Len(input_data[1]) :
          input_data[1][i] = <<"health_index", <<0, 3>>>>

\* C10: advisory text is on the page exactly when the run was clicked and
\* scored; it is the template of the tier the same run computed (the high
\* template alone carries the not-a-diagnosis disclaimer), and the summary
\* is never looked up with risk_level unbound.
C10_AdvisoryKeyedByTier ==
    /\ (advisory # <<>>) = (predict_clicked /\ probability # <<>>)
    /\ err # "NameError:risk_level"
    /\ advisory # <<>> =>
          /\ risk_level \in {"low", "medium", "high"}
          /\ risk_level = "low" =>
                advisory[1].risk = "low risk" /\ ~advisory[1].disclaimer
          /\ risk_level = "medium" =>
                advisory[1].risk = "moderate risk" /\ ~advisory[1].disclaimer
          /\ risk_level = "high" =>
                advisory[1].risk = "high risk" /\ advisory[1].disclaimer

\* a clicked run tiered high shows the high template with its disclaimer
C10_Witness ==
    /\ pc = "done"
    /\ predict_clicked
    /\ risk_level = "high"
    /\ advisory # <<>>
    /\ advisory[1].risk = "high risk"
    /\ advisory[1].disclaimer

====
